---- MODULE Spec2Model ----
(***************************************************************************)
(* A model of package tlv (src/tlv.go): the TLV object codec               *)
(* (New, Equal, ReadObject, WriteObject, FromBytes, ToBytes) and the       *)
(* List built on it (Get, GetAll, Remove, RemoveObject, Add, AddObject,    *)
(* Write, Read).  A TLV object is a record [typ, len, val]; a List is the  *)
(* sequence of its elements, front first.  Readers and writers are         *)
(* modelled by what the code asks of them: a bytes.Buffer as the in-memory *)
(* reader, and a writer that is either a bytes.Buffer or a writer of       *)
(* limited capacity that fails loudly (an error) or silently (a short      *)
(* count and a nil error).                                                 *)
(***************************************************************************)
EXTENDS Integers, Sequences, FiniteSets, TLC

VARIABLES objects, op, argTyp, argVal, argObj,
          retN, retObj, retSeq, err, w, stream

vars == <<objects, op, argTyp, argVal, argObj,
          retN, retObj, retSeq, err, w, stream>>

(* ------------------------------ bounds -------------------------------- *)

\* The longest list the model builds.
MaxList == 3

\* The largest capacity of a limited writer: room for a whole object and
\* the header of the next.
MaxCap == 8

\* The type bytes the list operations are exercised with.
Types == {0, 255}

\* The value payloads the operations are exercised with: the empty value,
\* two values of the same length, and a longer one.
Values == {<<>>, <<0>>, <<255>>, <<7, 9>>}

\* Every type byte (the codec functions are exercised with all of them).
Byte == 0..255

(* ------------------------------ helpers ------------------------------- *)

Min(a, b) == IF a <= b THEN a ELSE b

\* s[:n] and s[n:] of a Go slice, n clipped to the length.
Take(s, n) == SubSeq(s, 1, Min(n, Len(s)))
Drop(s, n) == SubSeq(s, Min(n, Len(s)) + 1, Len(s))

\* list.List.Remove(e) for the element at position i.
DeleteAt(s, i) == SubSeq(s, 1, i - 1) \o SubSeq(s, i + 1, Len(s))

(* ------------------------------ errors -------------------------------- *)

NoErr == "nil"
EOF == "EOF"
ErrUnexpectedEOF == "unexpected EOF"
ErrTLVRead == "TLV read error"
ErrTLVWrite == "TLV write error"
ErrTypeNotFound == "TLV type not found"
\* The error a failing writer reports (any error of the sink's own).
ErrSink == "sink error"
\* A run-time panic of the call (make with a negative length): the call does
\* not return, and what the model gives beside this error means nothing.
Panic == "panic: makeslice: len out of range"

\* A run-time panic of a type assertion e.Value.(*object) or e.Value.(TLV) on
\* an element that is not one; as for Panic, the call does not return.
PanicAssert == "panic: interface conversion"

\* The nil TLV interface value.
Nil == [nil |-> TRUE]

\* A TLV of the caller's own type (the interface is exported, *object is
\* not): the three accessors answer typ, len and val.
Foreign(typ, val) == [typ |-> typ, len |-> Len(val), val |-> val, foreign |-> TRUE]

\* Whether the list element e is a *object: what New and ReadObject make.
IsObject(e) == DOMAIN e = {"typ", "len", "val"}

(* --------------------------- object codec ----------------------------- *)

\* New: typ, len = int32(len(val)), val a copy of the argument.  The values
\* of the model are far shorter than 2^31 bytes, where int32() changes nothing.
New(typ, val) == [typ |-> typ, len |-> Len(val), val |-> val]

\* bytes.Equal
BytesEqual(a, b) == Len(a) = Len(b) /\ \A i \in 1..Len(a) : a[i] = b[i]

Equal(tlv1, tlv2) ==
  IF tlv1 = Nil THEN tlv2 = Nil
  ELSE IF tlv2 = Nil THEN FALSE
  ELSE IF tlv1.typ # tlv2.typ THEN FALSE
  ELSE IF tlv1.len # tlv2.len THEN FALSE
  ELSE IF ~BytesEqual(tlv1.val, tlv2.val) THEN FALSE
  ELSE TRUE

\* binary.BigEndian.PutUint32(uint32(n)) for an int32 n (two's complement).
BigEndianPutInt32(n) ==
  << (n \div 16777216) % 256, (n \div 65536) % 256, (n \div 256) % 256, n % 256 >>

\* int32(binary.BigEndian.Uint32(b)).
BigEndianInt32(b) ==
  (IF b[1] >= 128 THEN b[1] - 256 ELSE b[1]) * 16777216
    + b[2] * 65536 + b[3] * 256 + b[4]

\* io.ReadFull on a bytes.Buffer holding buf, for n > 0 bytes (binary.Read).
ReadFull(buf, n) ==
  IF Len(buf) >= n THEN [bytes |-> Take(buf, n), err |-> NoErr, rest |-> Drop(buf, n)]
  ELSE IF Len(buf) = 0 THEN [bytes |-> <<>>, err |-> EOF, rest |-> buf]
  ELSE [bytes |-> buf, err |-> ErrUnexpectedEOF, rest |-> <<>>]

\* bytes.Buffer.Read(p) with len(p) = n: an empty buffer answers (0, nil) to
\* an empty p and (0, EOF) otherwise; else it copies what it has.
BufRead(buf, n) ==
  IF Len(buf) = 0
  THEN [bytes |-> <<>>, err |-> IF n = 0 THEN NoErr ELSE EOF, rest |-> buf]
  ELSE [bytes |-> Take(buf, n), err |-> NoErr, rest |-> Drop(buf, n)]

\* A mutant: a value read that returns no bytes is taken for a failure.
ReadObject_ZeroIsError(buf) ==
  LET t == ReadFull(buf, 1) IN
  IF t.err # NoErr THEN [obj |-> Nil, err |-> t.err, rest |-> t.rest]
  ELSE LET l == ReadFull(t.rest, 4) IN
  IF l.err # NoErr THEN [obj |-> Nil, err |-> l.err, rest |-> l.rest]
  ELSE LET length == BigEndianInt32(l.bytes)
           v == BufRead(l.rest, length)
       IN IF v.err # NoErr \/ Len(v.bytes) = 0
          THEN [obj |-> Nil, err |-> IF v.err # NoErr THEN v.err ELSE EOF, rest |-> v.rest]
          ELSE [obj |-> [typ |-> t.bytes[1], len |-> length,
                         val |-> [i \in 1..length |-> IF i <= Len(v.bytes) THEN v.bytes[i] ELSE 0]],
                err |-> IF Len(v.bytes) # length THEN ErrTLVRead ELSE NoErr,
                rest |-> v.rest]

\* ReadObject on a bytes.Buffer holding buf: the object, the error and what
\* is left in the buffer.  The value buffer is make([]byte, length): a
\* negative length panics, and a short read leaves its tail zero.
ReadObject(buf) ==
  LET t == ReadFull(buf, 1) IN
  IF t.err # NoErr THEN [obj |-> Nil, err |-> t.err, rest |-> t.rest]
  ELSE LET l == ReadFull(t.rest, 4) IN
  IF l.err # NoErr THEN [obj |-> Nil, err |-> l.err, rest |-> l.rest]
  ELSE LET length == BigEndianInt32(l.bytes) IN
  IF length < 0 THEN [obj |-> Nil, err |-> Panic, rest |-> l.rest]
  ELSE LET v == BufRead(l.rest, length) IN
  IF v.err # NoErr THEN [obj |-> Nil, err |-> v.err, rest |-> v.rest]
  ELSE [obj |-> [typ |-> t.bytes[1], len |-> length,
                 val |-> [i \in 1..length |-> IF i <= Len(v.bytes) THEN v.bytes[i] ELSE 0]],
        err |-> IF Len(v.bytes) # length THEN ErrTLVRead ELSE NoErr,
        rest |-> v.rest]

FromBytes(data) == ReadObject(data)

(* ------------------------------ writers ------------------------------- *)

\* A bytes.Buffer as io.Writer.
NewBuffer == [data |-> <<>>, calls |-> 0, cap |-> 0, mode |-> "buffer"]

\* A writer that takes cap bytes in all; a Write that does not fit stores
\* what fits and returns the short count, with ErrSink (mode "err") or with
\* a nil error (mode "short").
LimitedWriter(cap, mode) == [data |-> <<>>, calls |-> 0, cap |-> cap, mode |-> mode]

\* One w.Write(p) call: the writer afterwards, n and err.
SinkWrite(wr, p) ==
  LET n == IF wr.mode = "buffer" THEN Len(p) ELSE Min(Len(p), wr.cap - Len(wr.data))
  IN [w |-> [wr EXCEPT !.data = @ \o Take(p, n), !.calls = @ + 1],
      n |-> n,
      err |-> IF n < Len(p) /\ wr.mode = "err" THEN ErrSink ELSE NoErr]

\* A mutant: the length field is written least significant byte first.
WriteObject_LittleEndian(tlv, wr) ==
  LET r1 == SinkWrite(wr, <<tlv.typ>>) IN
  IF r1.err # NoErr THEN [w |-> r1.w, err |-> r1.err]
  ELSE LET be == BigEndianPutInt32(tlv.len)
           r2 == SinkWrite(r1.w, <<be[4], be[3], be[2], be[1]>>) IN
  IF r2.err # NoErr THEN [w |-> r2.w, err |-> r2.err]
  ELSE LET r3 == SinkWrite(r2.w, tlv.val) IN
  IF r3.err # NoErr THEN [w |-> r3.w, err |-> r3.err]
  ELSE IF r3.n # tlv.len THEN [w |-> r3.w, err |-> ErrTLVWrite]
  ELSE [w |-> r3.w, err |-> NoErr]

\* WriteObject: three Write calls (binary.Write drops the count of the first
\* two and returns only their error); the count of the third is compared
\* with Length().
WriteObject(tlv, wr) ==
  LET r1 == SinkWrite(wr, <<tlv.typ>>) IN
  IF r1.err # NoErr THEN [w |-> r1.w, err |-> r1.err]
  ELSE LET r2 == SinkWrite(r1.w, BigEndianPutInt32(tlv.len)) IN
  IF r2.err # NoErr THEN [w |-> r2.w, err |-> r2.err]
  ELSE LET r3 == SinkWrite(r2.w, tlv.val) IN
  IF r3.err # NoErr THEN [w |-> r3.w, err |-> r3.err]
  ELSE IF r3.n # tlv.len THEN [w |-> r3.w, err |-> ErrTLVWrite]
  ELSE [w |-> r3.w, err |-> NoErr]

\* ToBytes: WriteObject into a fresh bytes.Buffer; its bytes and the error.
ToBytes(tlv) ==
  LET r == WriteObject(tlv, NewBuffer) IN [data |-> r.w.data, err |-> r.err, w |-> r.w]

(* ------------------------------- List --------------------------------- *)

NewList == <<>>

\* tl.objects.Len()
Length(tl) == Len(tl)

\* The position of the first element of tl from position i on whose type is
\* typ, 0 when there is none (the for e := Front(); e != nil; e = e.Next()
\* scans of Get and Remove), -1 when the scan comes to an element that is
\* not a *object first: e.Value.(*object) panics there.
RECURSIVE ScanType(_, _, _)
ScanType(tl, typ, i) ==
  IF i > Len(tl) THEN 0
  ELSE IF ~IsObject(tl[i]) THEN -1
  ELSE IF tl[i].typ = typ THEN i
  ELSE ScanType(tl, typ, i + 1)

\* The same scan with Equal(e.Value.(*object), obj) as the test
\* (RemoveObject).
RECURSIVE ScanEqual(_, _, _)
ScanEqual(tl, obj, i) ==
  IF i > Len(tl) THEN 0
  ELSE IF ~IsObject(tl[i]) THEN -1
  ELSE IF Equal(tl[i], obj) THEN i
  ELSE ScanEqual(tl, obj, i + 1)

\* A mutant: the scan runs from the back and returns the last match.
Get_Last(tl, typ) ==
  LET m == {i \in 1..Len(tl) : tl[i].typ = typ} IN
  IF m = {} THEN [obj |-> Nil, err |-> ErrTypeNotFound]
  ELSE [obj |-> tl[CHOOSE i \in m : \A j \in m : j <= i], err |-> NoErr]

Get(tl, typ) ==
  LET i == ScanType(tl, typ, 1) IN
  IF i = -1 THEN [obj |-> Nil, err |-> PanicAssert]
  ELSE IF i = 0 THEN [obj |-> Nil, err |-> ErrTypeNotFound]
  ELSE [obj |-> tl[i], err |-> NoErr]

\* GetAll: ts grows by append over one front-to-back scan; the scan panics
\* at an element that is not a *object.
RECURSIVE GetAllFrom(_, _, _, _)
GetAllFrom(tl, typ, i, ts) ==
  IF i > Len(tl) THEN [ts |-> ts, err |-> NoErr]
  ELSE IF ~IsObject(tl[i]) THEN [ts |-> <<>>, err |-> PanicAssert]
  ELSE GetAllFrom(tl, typ, i + 1, IF tl[i].typ = typ THEN Append(ts, tl[i]) ELSE ts)

GetAll(tl, typ) == GetAllFrom(tl, typ, 1, <<>>)

\* A mutant: one pass only, so only the first match is removed.
Remove_OnePass(tl, typ) ==
  LET i == ScanType(tl, typ, 1) IN
  IF i = -1 THEN [objects |-> tl, n |-> 0, err |-> PanicAssert]
  ELSE IF i = 0 THEN [objects |-> tl, n |-> 0, err |-> NoErr]
  ELSE [objects |-> DeleteAt(tl, i), n |-> 1, err |-> NoErr]

\* Remove: scan from the front for the first match, remove it, scan again
\* from the front; stop at the first scan that removes nothing.  A scan that
\* panics leaves the list as the scans before it left it.
RECURSIVE Remove(_, _)
Remove(tl, typ) ==
  LET i == ScanType(tl, typ, 1) IN
  IF i = -1 THEN [objects |-> tl, n |-> 0, err |-> PanicAssert]
  ELSE IF i = 0 THEN [objects |-> tl, n |-> 0, err |-> NoErr]
  ELSE LET r == Remove(DeleteAt(tl, i), typ)
       IN [objects |-> r.objects, n |-> r.n + 1, err |-> r.err]

\* A mutant: the match is on the type alone.
RemoveObject_ByType(tl, obj) ==
  IF obj = Nil THEN [objects |-> tl, n |-> 0, err |-> NoErr] ELSE Remove(tl, obj.typ)

RECURSIVE RemoveObject(_, _)
RemoveObject(tl, obj) ==
  LET i == ScanEqual(tl, obj, 1) IN
  IF i = -1 THEN [objects |-> tl, n |-> 0, err |-> PanicAssert]
  ELSE IF i = 0 THEN [objects |-> tl, n |-> 0, err |-> NoErr]
  ELSE LET r == RemoveObject(DeleteAt(tl, i), obj)
       IN [objects |-> r.objects, n |-> r.n + 1, err |-> r.err]

\* Add: PushBack(New(typ, value)).
Add(tl, typ, value) == Append(tl, New(typ, value))

\* AddObject: PushBack(obj).
AddObject(tl, obj) == Append(tl, obj)

\* A mutant: a failed WriteObject is skipped and the loop goes on; the first
\* error is returned at the end.
RECURSIVE Write_KeepsGoing(_, _)
Write_KeepsGoing(tl, wr) ==
  IF tl = <<>> THEN [w |-> wr, err |-> NoErr]
  ELSE LET r == WriteObject(tl[1], wr)
           s == Write_KeepsGoing(Tail(tl), r.w)
       IN [w |-> s.w, err |-> IF r.err # NoErr THEN r.err ELSE s.err]

\* Write: WriteObject for each element, front first, returning at the first
\* error.  e.Value.(TLV) panics at a nil element.
RECURSIVE Write(_, _)
Write(tl, wr) ==
  IF tl = <<>> THEN [w |-> wr, err |-> NoErr]
  ELSE IF tl[1] = Nil THEN [w |-> wr, err |-> PanicAssert]
  ELSE LET r == WriteObject(tl[1], wr) IN
       IF r.err # NoErr THEN r
       ELSE Write(Tail(tl), r.w)

\* The loop of Read: ReadObject until an error, PushBack of each object.
RECURSIVE ReadLoop(_, _)
ReadLoop(buf, tl) ==
  LET r == ReadObject(buf) IN
  IF r.err # NoErr THEN [objects |-> tl, err |-> r.err]
  ELSE ReadLoop(r.rest, Append(tl, r.obj))

\* A mutant: the list is dropped when the loop ends on an error.
Read_DropsOnEOF(buf) ==
  LET r == ReadLoop(buf, NewList) IN
  [objects |-> IF r.err = NoErr THEN r.objects ELSE NewList,
   err |-> IF r.err = EOF THEN NoErr ELSE r.err]

\* Read: io.EOF from ReadObject ends the loop with a nil error; any other
\* error is returned with the list built so far.
Read(buf) ==
  LET r == ReadLoop(buf, NewList) IN
  [objects |-> r.objects, err |-> IF r.err = EOF THEN NoErr ELSE r.err]

(* ------------------------------ the calls ----------------------------- *)

\* The objects a caller hands to the list: New(t, v).
Records == {New(t, v) : t \in Types, v \in Values}

\* The writers handed to Write for the list tl: a bytes.Buffer, and the
\* limited writers of capacity up to MaxCap that run out somewhere in tl's
\* encoding.
Sinks(tl) ==
  {NewBuffer} \cup
  {LimitedWriter(c, m) : c \in 0..Min(MaxCap, Len(Write(tl, NewBuffer).w.data) - 1),
                         m \in {"err", "short"}}

\* Headers whose length field is negative.
NegativeHeaders == {<<0, 255, 255, 255, 255>>, <<255, 128, 0, 0, 0>>}

\* The outcome of one call: the list after it, the call's name and
\* arguments, and what it returned.
Outcome(o, tl, at, av, ao, rn, ro, rs, e, wr, st) ==
  /\ op' = o
  /\ objects' = tl
  /\ argTyp' = at
  /\ argVal' = av
  /\ argObj' = ao
  /\ retN' = rn
  /\ retObj' = ro
  /\ retSeq' = rs
  /\ err' = e
  /\ w' = wr
  /\ stream' = st

\* The caller holds the list as the last mutating call left it.  Get, GetAll
\* and Write leave the list as it is, so whatever can follow them can follow
\* the call before them: a run of the model is a sequence of mutating calls
\* ended by at most one reading call (and, after a Write into a buffer, a
\* Read of that buffer).
Mutated == op \in {"NewList", "Add", "AddObject", "Remove", "RemoveObject"}

Init ==
  /\ op = "NewList"
  /\ objects = NewList
  /\ argTyp = -1
  /\ argVal = <<>>
  /\ argObj = Nil
  /\ retN = 0
  /\ retObj = Nil
  /\ retSeq = <<>>
  /\ err = NoErr
  /\ w = NewBuffer
  /\ stream = <<>>

CallAdd ==
  \E t \in Types, v \in Values :
    /\ Mutated
    /\ Len(objects) < MaxList
    /\ Outcome("Add", Add(objects, t, v), t, v, Nil, 0, Nil, <<>>, NoErr, NewBuffer, <<>>)

CallAddObject ==
  \E obj \in Records :
    /\ Mutated
    /\ Len(objects) < MaxList
    /\ Outcome("AddObject", AddObject(objects, obj), -1, <<>>, obj, 0, Nil, <<>>, NoErr,
               NewBuffer, <<>>)

CallRemove ==
  \E t \in Types :
    LET r == Remove(objects, t) IN
    Mutated /\ Outcome("Remove", r.objects, t, <<>>, Nil, r.n, Nil, <<>>, r.err, NewBuffer, <<>>)

CallRemoveObject ==
  \E obj \in Records \cup {Nil} :
    LET r == RemoveObject(objects, obj) IN
    Mutated /\ Outcome("RemoveObject", r.objects, -1, <<>>, obj, r.n, Nil, <<>>, r.err, NewBuffer, <<>>)

CallGet ==
  \E t \in Types :
    LET r == Get(objects, t) IN
    Mutated /\ Outcome("Get", objects, t, <<>>, Nil, 0, r.obj, <<>>, r.err, NewBuffer, <<>>)

CallGetAll ==
  \E t \in Types :
    LET r == GetAll(objects, t) IN
    Mutated /\ Outcome("GetAll", objects, t, <<>>, Nil, 0, Nil, r.ts, r.err, NewBuffer, <<>>)

\* tl.Write(sink), for a fresh sink.
CallWrite ==
  \E sink \in Sinks(objects) :
    LET r == Write(objects, sink) IN
    Mutated /\ Outcome("Write", objects, -1, <<>>, Nil, 0, Nil, <<>>, r.err, r.w, <<>>)

\* Read(r) for a bytes.Buffer r holding the first cut bytes of what the last
\* Write put into an in-memory buffer; the list read takes the place of the
\* list written.
CallRead ==
  \E cut \in 0..Len(w.data) :
    /\ op = "Write"
    /\ w.mode = "buffer"
    /\ LET st == Take(w.data, cut)
           r == Read(st)
       IN Outcome("Read", r.objects, -1, <<>>, Nil, 0, Nil, <<>>, r.err, w, st)

\* The codec functions are applied to an object New(t, v) drawn at the
\* start: any type byte, any value of Values.
InitCodec ==
  /\ op = "New"
  /\ objects = NewList
  /\ argTyp \in Byte
  /\ argVal \in Values
  /\ argObj = New(argTyp, argVal)
  /\ retN = 0
  /\ retObj = Nil
  /\ retSeq = <<>>
  /\ err = NoErr
  /\ w = NewBuffer
  /\ stream = <<>>

\* ToBytes(New(t, v)).
CallToBytes ==
  /\ op = "New"
  /\ LET r == ToBytes(argObj) IN
     Outcome("ToBytes", objects, argTyp, argVal, argObj, 0, Nil, <<>>, r.err, r.w, <<>>)

\* FromBytes of the first cut bytes of what ToBytes returned.
CallFromBytes ==
  \E cut \in 0..Len(w.data) :
    /\ op = "ToBytes"
    /\ LET st == Take(w.data, cut)
           r == FromBytes(st)
       IN Outcome("FromBytes", objects, argTyp, argVal, argObj, 0, r.obj, <<>>, r.err, w, st)

\* FromBytes of a header with a negative length field.
CallFromBytesNegative ==
  \E st \in NegativeHeaders :
    LET r == FromBytes(st) IN
    Outcome("FromBytesNegative", objects, -1, <<>>, Nil, 0, r.obj, <<>>, r.err, NewBuffer, st)

Next ==
  \/ CallAdd
  \/ CallAddObject
  \/ CallRemove
  \/ CallRemoveObject
  \/ CallGet
  \/ CallGetAll
  \/ CallWrite
  \/ CallRead

\* The list and its calls.
Spec == Init /\ [][Next]_vars

(* ---------------- the calls, with any TLV and after Read -------------- *)

\* The TLVs a caller can hand to AddObject and RemoveObject: objects made by
\* New, the nil TLV, and TLVs of the caller's own type.
AnyTLV == Records \cup {Nil} \cup {Foreign(t, <<7>>) : t \in Types}

\* The caller holds the list as the last mutating call or Read left it.
Held == op \in {"NewList", "Add", "AddObject", "Remove", "RemoveObject", "Read"}

AnyAdd ==
  \E t \in Types, v \in Values :
    /\ Held
    /\ Len(objects) < MaxList
    /\ Outcome("Add", Add(objects, t, v), t, v, Nil, 0, Nil, <<>>, NoErr, NewBuffer, <<>>)

AnyAddObject ==
  \E obj \in AnyTLV :
    /\ Held
    /\ Len(objects) < MaxList
    /\ Outcome("AddObject", AddObject(objects, obj), -1, <<>>, obj, 0, Nil, <<>>, NoErr,
               NewBuffer, <<>>)

AnyRemove ==
  \E t \in Types :
    LET r == Remove(objects, t) IN
    Held /\ Outcome("Remove", r.objects, t, <<>>, Nil, r.n, Nil, <<>>, r.err, NewBuffer, <<>>)

AnyRemoveObject ==
  \E obj \in AnyTLV :
    LET r == RemoveObject(objects, obj) IN
    Held /\ Outcome("RemoveObject", r.objects, -1, <<>>, obj, r.n, Nil, <<>>, r.err,
                    NewBuffer, <<>>)

AnyGetAll ==
  \E t \in Types :
    LET r == GetAll(objects, t) IN
    Held /\ Outcome("GetAll", objects, t, <<>>, Nil, 0, Nil, r.ts, r.err, NewBuffer, <<>>)

\* tl.Write(buf) for a fresh bytes.Buffer.
AnyWrite ==
  LET r == Write(objects, NewBuffer) IN
  Held /\ Outcome("Write", objects, -1, <<>>, Nil, 0, Nil, <<>>, r.err, r.w, <<>>)

\* Read of the bytes.Buffer the last Write filled; the list read is the list
\* the caller goes on with.
AnyRead ==
  /\ op = "Write"
  /\ err = NoErr
  /\ LET r == Read(w.data) IN
     Outcome("Read", r.objects, -1, <<>>, Nil, 0, Nil, <<>>, r.err, w, w.data)

NextAny ==
  \/ AnyAdd
  \/ AnyAddObject
  \/ AnyRemove
  \/ AnyRemoveObject
  \/ AnyGetAll
  \/ AnyWrite
  \/ AnyRead

\* The list and its calls, AddObject given any TLV, Read followed by further
\* calls.
SpecAny == Init /\ [][NextAny]_vars

NextCodec ==
  \/ CallToBytes
  \/ CallFromBytes
  \/ CallFromBytesNegative

\* The codec functions applied to New(t, v), t any byte, v in Values.
SpecCodec == InitCodec /\ [][NextCodec]_vars

(* ------------------------------ properties ---------------------------- *)

\* The wire format of README.md, written out: the type byte, the length most
\* significant byte first, the value.
Wire(typ, val) ==
  LET n == Len(val) IN
  <<typ, (n \div 16777216) % 256, (n \div 65536) % 256, (n \div 256) % 256, n % 256>> \o val

\* The concatenated wire format of the first k objects of tl.
RECURSIVE WireOf(_, _)
WireOf(tl, k) ==
  IF k = 0 THEN <<>> ELSE WireOf(tl, k - 1) \o Wire(tl[k].typ, tl[k].val)

\* Same type, same length, same value bytes.
Same(a, b) == a.typ = b.typ /\ a.len = b.len /\ a.val = b.val

\* C1: FromBytes(ToBytes(New(t, v))) returns a nil error and an object with
\* type t, length len(v) and value v that is Equal to New(t, v); the 5 bytes
\* of an empty value decode to length 0 and an empty value.
C1_RoundTrip ==
  (op = "FromBytes" /\ stream = w.data) =>
    /\ err = NoErr
    /\ retObj # Nil
    /\ retObj.typ = argTyp
    /\ retObj.len = Len(argVal)
    /\ retObj.val = argVal
    /\ Equal(retObj, New(argTyp, argVal))
    /\ Equal(retObj, argObj)

\* The 5-byte encoding of an empty value has been decoded.
C1_Witness ==
  /\ op = "FromBytes"
  /\ stream = w.data
  /\ Len(stream) = 5
  /\ argVal = <<>>
  /\ retObj # Nil

\* C2: ToBytes(New(t, v)) (WriteObject into a buffer that takes everything)
\* gives no error and exactly 5 + len(v) bytes: t, then len(v) as a
\* big-endian 32-bit integer, then v unchanged.
C2_WireFormat ==
  op = "ToBytes" =>
    /\ err = NoErr
    /\ Len(w.data) = 5 + Len(argVal)
    /\ w.data[1] = argTyp
    /\ w.data[2] * 16777216 + w.data[3] * 65536 + w.data[4] * 256 + w.data[5] = Len(argVal)
    /\ SubSeq(w.data, 6, Len(w.data)) = argVal
    /\ w.data = Wire(argTyp, argVal)
    /\ (argVal = <<>> => Len(w.data) = 5)

\* A non-empty value under a type byte above 127 has been encoded.
C2_Witness ==
  /\ op = "ToBytes"
  /\ argTyp = 255
  /\ Len(argVal) = 2
  /\ Len(w.data) = 7

\* C3: Read of all the bytes Write put into an in-memory buffer returns a nil
\* error and a list of the same Length whose i-th object is Equal to the
\* i-th object written.
C3_ListRoundTrip ==
  [][(op' = "Read" /\ stream' = w.data) =>
       /\ err' = NoErr
       /\ Length(objects') = Length(objects)
       /\ \A i \in 1..Len(objects) :
            /\ i <= Len(objects')
            /\ Equal(objects'[i], objects[i])
            /\ Same(objects'[i], objects[i])]_vars

\* A list of several objects ending in an empty value has been written and
\* read back whole.
C3_Witness ==
  /\ op = "Read"
  /\ stream = w.data
  /\ Len(stream) >= 15
  /\ Len(objects) >= 2
  /\ objects[Len(objects)].len = 0
  /\ objects[1].len > 0

\* C4 as claimed: Read of k complete objects followed by the first n bytes,
\* 1 <= n <= 4, of the next header returns the k objects and a non-nil error.
C4_TruncatedHeaderReported ==
  [][\A k \in 0..Len(objects) :
       (/\ op' = "Read"
        /\ Len(stream') - Len(WireOf(objects, k)) \in 1..4
        /\ Len(stream') < Len(w.data))
       => /\ err' # NoErr
          /\ objects' = SubSeq(objects, 1, k)]_vars

\* C5 as claimed: Read of k complete objects followed by a complete header of
\* length L > 0 and m < L value bytes, 0 <= m, returns the k objects and a
\* non-nil error; of the streams that end at or after a complete header,
\* Read returns a nil error only for those that end where an object ends.
C5_TruncatedValueReported ==
  [][\A k \in 0..(Len(objects) - 1) :
       (/\ op' = "Read"
        /\ Len(stream') - Len(WireOf(objects, k)) >= 5
        /\ Len(stream') < Len(WireOf(objects, k + 1)))
       => /\ err' # NoErr
          /\ objects' = SubSeq(objects, 1, k)]_vars

\* C6: Remove(t) leaves the list with exactly the objects of type t filtered
\* out, the others in their order, and returns how many objects of type t
\* the list held.
C6_Remove ==
  [][op' = "Remove" =>
       LET Keep(o) == o.typ # argTyp'
           Hit(o) == o.typ = argTyp'
       IN /\ objects' = SelectSeq(objects, Keep)
          /\ retN' = Len(SelectSeq(objects, Hit))
          /\ \A i \in 1..Len(objects') : objects'[i].typ # argTyp']_vars

\* Remove has removed several objects and left another.
C6_Witness ==
  /\ op = "Remove"
  /\ retN >= 2
  /\ Len(objects) >= 1

\* C7: RemoveObject(r) leaves the list with exactly the objects of the same
\* type, length and value as r filtered out, the others (those of r's type
\* and another value too) in their order, and returns how many it removed.
C7_RemoveObject ==
  [][op' = "RemoveObject" =>
       LET Hit(o) == argObj' # Nil /\ Same(o, argObj')
           Keep(o) == ~Hit(o)
       IN /\ objects' = SelectSeq(objects, Keep)
          /\ retN' = Len(SelectSeq(objects, Hit))
          /\ retN' = Len(objects) - Len(objects')]_vars

\* RemoveObject has removed an object and left one of the same type and
\* another value.
C7_Witness ==
  /\ op = "RemoveObject"
  /\ argObj # Nil
  /\ retN >= 1
  /\ \E i \in 1..Len(objects) :
       objects[i].typ = argObj.typ /\ objects[i].val # argObj.val

\* C8: Get(t) returns the first object of type t in the list and a nil
\* error, or ErrTypeNotFound when there is none; GetAll(t) returns the
\* objects of type t in list order (empty when there are none); neither
\* changes the list.
C8_Lookup ==
  [][/\ op' = "Get" =>
          LET m == {i \in 1..Len(objects) : objects[i].typ = argTyp'} IN
          /\ objects' = objects
          /\ m = {} => (err' = ErrTypeNotFound /\ retObj' = Nil)
          /\ m # {} => /\ err' = NoErr
                       /\ retObj' = objects[CHOOSE i \in m : \A j \in m : i <= j]
     /\ op' = "GetAll" =>
          LET Hit(o) == o.typ = argTyp' IN
          /\ objects' = objects
          /\ err' = NoErr
          /\ retSeq' = SelectSeq(objects, Hit)]_vars

\* Get has returned the first of two different objects of its type, which
\* is not the first object of the list.
C8_Witness ==
  /\ op = "Get"
  /\ err = NoErr
  /\ Len(objects) >= 3
  /\ objects[1].typ # argTyp
  /\ \E i, j \in 1..Len(objects) :
       /\ i < j
       /\ objects[i].typ = argTyp
       /\ objects[j].typ = argTyp
       /\ objects[i] # objects[j]
       /\ retObj = objects[i]

\* The sum over the 256 type bytes t of the size of GetAll(t): the number
\* of pairs (t, i) with i a position of GetAll(t).
SumGetAll(tl) ==
  Cardinality(UNION {{t} \X (1..Len(GetAll(tl, t).ts)) : t \in 0..255})

\* C9 as claimed: after every Add, AddObject, Remove and RemoveObject, from
\* NewList or from a list returned by Read, GetAll(t) returns for each of the
\* 256 type bytes t and Length() is the sum of the sizes returned; Add and
\* AddObject raise Length() by 1; Remove and RemoveObject return and lower it
\* by the count they return.
C9_Length ==
  [][/\ op' \in {"Add", "AddObject", "Remove", "RemoveObject", "Read"} =>
          /\ \A t \in 0..255 : GetAll(objects', t).err = NoErr
          /\ Length(objects') = SumGetAll(objects')
     /\ op' \in {"Add", "AddObject"} => Length(objects') = Length(objects) + 1
     /\ op' \in {"Remove", "RemoveObject"} =>
          /\ err' = NoErr
          /\ Length(objects') = Length(objects) - retN']_vars

\* The writer Write was handed, as it was before the call.
Fresh(wr) == [wr EXCEPT !.data = <<>>, !.calls = 0]

\* What WriteObject returns for each object of tl in turn, each applied to
\* the writer the one before it left (wr for the first).
RECURSIVE Chain(_, _)
Chain(tl, wr) ==
  IF tl = <<>> THEN <<>>
  ELSE LET r == WriteObject(tl[1], wr) IN <<r>> \o Chain(Tail(tl), r.w)

\* C10: Write emits the objects in list order and stops at the first one
\* whose WriteObject fails (the f-th, 0 when none fails): it returns that error (ErrTLVWrite for a short
\* count of value bytes with a nil error, else the writer's own error),
\* makes no Write call for a later object, leaves what was written in the
\* writer, and leaves the list as it was.
C10_Write ==
  [][op' = "Write" =>
       \A chain \in {Chain(objects, Fresh(w'))} :
       \A failed \in {{k \in 1..Len(objects) : chain[k].err # NoErr}} :
       \A f \in (IF failed = {} THEN {0}
                 ELSE {k \in failed : \A j \in failed : k <= j}) :
       \A full \in {WireOf(objects, Len(objects))} :
          /\ objects' = objects
          /\ f = 0 =>
               /\ err' = NoErr
               /\ w' = IF objects = <<>> THEN Fresh(w') ELSE chain[Len(objects)].w
          /\ f > 0 =>
               /\ err' = chain[f].err
               /\ w' = chain[f].w
               /\ w'.calls <= 3 * f
               /\ w'.calls > 3 * (f - 1)
               /\ err' = IF w'.mode = "err" THEN ErrSink ELSE ErrTLVWrite
          /\ w'.mode = "buffer" => (err' = NoErr /\ w'.data = full)
          /\ w'.mode = "err" =>
               /\ w'.data = SubSeq(full, 1, Len(w'.data))
               /\ Len(w'.data) = Min(w'.cap, Len(full))
               /\ err' = (IF w'.cap < Len(full) THEN ErrSink ELSE NoErr)
          /\ (w'.mode = "short" /\ err' = ErrTLVWrite) =>
               /\ f > 0
               /\ objects[f].len > 0]_vars

\* Write has stopped with ErrTLVWrite at an object that is not the last,
\* with bytes of it in the writer.
C10_Witness ==
  /\ op = "Write"
  /\ err = ErrTLVWrite
  /\ Len(w.data) > 5
  /\ w.calls < 3 * Len(objects)

====
